---- MODULE Spec2Model ----
(***************************************************************************)
(* Solar data dashboard: the SolarDataCleaner column filter                *)
(* (src/src/data_processing.py), the loader and metric aggregator          *)
(* (src/app/utils.py) and the ranking view (src/app/main.py).              *)
(*                                                                         *)
(* Numbers that pandas keeps as floats are modelled as exact fractions     *)
(* <<num, den>> with den >= 0: den > 0 is the rational num/den, <<0, 0>>   *)
(* is NaN and <<1, 0>> is +inf.  A missing cell of a table is None.        *)
(***************************************************************************)
EXTENDS Integers, Sequences, FiniteSets, TLC

VARIABLES
    df0,        \* the table the caller built and handed to SolarDataCleaner
    df,         \* SolarDataCleaner.df
    threshold,  \* threshold of the last drop_high_missing call, <<>> before it
    result,     \* <<table>> returned by the last drop_high_missing, <<>> before
    result2,    \* <<table>> returned by filtering `result` again, <<>> before
    calls,      \* number of drop_high_missing calls made on the cleaner
    files,      \* the three country files of the data directory
    pc,         \* "start", "loaded", "done" or "crashed" (uncaught exception)
    df_all,     \* <<dataset>> returned by load_data, <<>> for None
    warned,     \* countries whose "not found" warning was printed
    raised,     \* the exception raised so far, "none" if none
    request,    \* <<operation, argument>> asked of the loaded dataset
    screen,     \* what main has rendered
    rankings,   \* the rankings table of show_regional_rankings, by country
    best_country, \* <<country>> recommended by show_regional_rankings
    out         \* <<value>> returned by calculate_metrics / get_country_summary

cleanerVars == <<df0, df, threshold, result, result2, calls>>
dashVars == <<files, pc, df_all, warned, raised, request, screen, rankings,
              best_country, out>>
vars == <<cleanerVars, dashVars>>

\* ------------------------------------------------------------------ bounds
MaxRows == 3
MaxCalls == 2
MaxRecords == 2
MaxTableRows == 2

\* ------------------------------------------------------------- float model
None == -1
NaN == <<0, 0>>
IsNaN(x) == x[2] = 0 /\ x[1] = 0

\* x > y on floats: false as soon as one side is NaN
FloatGt(x, y) ==
    /\ ~IsNaN(x) /\ ~IsNaN(y)
    /\ IF x[2] = 0 THEN y[2] # 0
       ELSE IF y[2] = 0 THEN FALSE
       ELSE x[1] * y[2] > y[1] * x[2]

\* x <= y on floats: false as soon as one side is NaN
FloatLeq(x, y) ==
    /\ ~IsNaN(x) /\ ~IsNaN(y)
    /\ IF y[2] = 0 THEN TRUE
       ELSE IF x[2] = 0 THEN FALSE
       ELSE x[1] * y[2] <= y[1] * x[2]

IsInf(x) == x[2] = 0 /\ x[1] # 0

\* x == y on floats: false as soon as one side is NaN
FloatEq(x, y) == FloatLeq(x, y) /\ FloatLeq(y, x)

\* x + y and x / 2 on floats (no negative infinity arises in this program)
FloatAdd(x, y) ==
    IF IsNaN(x) \/ IsNaN(y) THEN NaN
    ELSE IF x[2] = 0 \/ y[2] = 0 THEN <<1, 0>>
    ELSE <<x[1] * y[2] + y[1] * x[2], x[2] * y[2]>>

FloatHalf(x) == IF x[2] = 0 THEN x ELSE <<x[1], 2 * x[2]>>

\* ------------------------------------------------- series reductions
RECURSIVE Sum(_)
Sum(xs) == IF xs = <<>> THEN 0 ELSE Head(xs) + Sum(Tail(xs))

RECURSIVE SumSq(_)
SumSq(xs) == IF xs = <<>> THEN 0 ELSE Head(xs) * Head(xs) + SumSq(Tail(xs))

\* the non-missing values of a column, in row order (pandas skips NaN)
Valid(xs) == SelectSeq(xs, LAMBDA v : v # None)

RECURSIVE Insert(_, _)
Insert(v, sorted) ==
    IF sorted = <<>> THEN <<v>>
    ELSE IF v <= Head(sorted) THEN <<v>> \o sorted
    ELSE <<Head(sorted)>> \o Insert(v, Tail(sorted))

RECURSIVE Sort(_)
Sort(xs) == IF xs = <<>> THEN <<>> ELSE Insert(Head(xs), Sort(Tail(xs)))

\* Series.mean()
mean(xs) ==
    LET v == Valid(xs) IN IF v = <<>> THEN NaN ELSE <<Sum(v), Len(v)>>

\* Series.median()
median(xs) ==
    LET v == Sort(Valid(xs))
        n == Len(v)
    IN  IF n = 0 THEN NaN
        ELSE IF n % 2 = 1 THEN <<v[(n + 1) \div 2], 1>>
        ELSE <<v[n \div 2] + v[n \div 2 + 1], 2>>

\* Series.std() squared: the sample variance (ddof = 1), NaN below two values
std_squared(xs) ==
    LET v == Valid(xs)
        n == Len(v)
    IN  IF n < 2 THEN NaN
        ELSE <<n * SumSq(v) - Sum(v) * Sum(v), n * (n - 1)>>

\* Series.count(): the non-missing values
count(xs) == Len(Valid(xs))

\* largest s in lo..hi with s * s * p <= m (lo satisfies it)
RECURSIVE RootSearch(_, _, _, _)
RootSearch(lo, hi, m, p) ==
    IF lo = hi THEN lo
    ELSE LET mid == (lo + hi + 1) \div 2
         IN  IF mid * mid * p <= m THEN RootSearch(mid, hi, m, p)
             ELSE RootSearch(lo, mid - 1, m, p)

\* round(x, 2) of a non-negative float, ties to even
round2(x) ==
    IF x[2] = 0 THEN x
    ELSE LET k == (200 * x[1] + x[2]) \div (2 * x[2])
             tie == (200 * x[1] + x[2]) % (2 * x[2]) = 0
         IN  <<IF tie /\ k % 2 = 1 THEN k - 1 ELSE k, 100>>

\* a guard that turns a zero standard deviation into a missing stability
inverse_std_zero_as_nan(v) ==
    IF IsNaN(v) \/ v[1] = 0 THEN NaN
    ELSE LET m == 40000 * v[2]
             s == RootSearch(0, 200 * v[2], m, v[1])
         IN  <<(s + 1) \div 2, 100>>

\* round(1 / std, 2) from the variance p/q: 1/0.0 is inf, and otherwise the
\* hundredths k with (2k-1)^2 <= 40000 q/p < (2k+1)^2, ties to even
inverse_std_round2(v) ==
    IF IsNaN(v) THEN NaN
    ELSE IF v[1] = 0 THEN <<1, 0>>
    ELSE LET m == 40000 * v[2]
             s == RootSearch(0, 200 * v[2], m, v[1])
             k == (s + 1) \div 2
             tie == (2 * k - 1) * (2 * k - 1) * v[1] = m
         IN  <<IF tie /\ k % 2 = 1 THEN k - 1 ELSE k, 100>>

\* ------------------------------------------------- SolarDataCleaner tables
ColumnNames == {"solar_radiation", "temperature", "efficiency"}
Cells == {None, 1}

Tables ==
    UNION { { [columns |-> ColumnNames, nrows |-> n, cell |-> c] :
                c \in [ColumnNames -> [1..n -> Cells]] } : n \in 0..MaxRows }

DefaultThreshold == <<1, 20>>
\* the default and every fraction of [0, 1] a table of the model can reach,
\* in lowest terms
Thresholds ==
    {DefaultThreshold} \cup
    UNION { { <<p, q>> : p \in { n \in 0..q :
                  \A k \in 2..q : n % k # 0 \/ q % k # 0 } } : q \in 1..MaxRows }

\* df.isna().mean(): per column, missing cells / rows; NaN for a table of no rows
MissingCount(table, c) ==
    Cardinality({ i \in 1..table.nrows : table.cell[c][i] = None })

missing_frac(table) ==
    [c \in table.columns |->
        IF table.nrows = 0 THEN NaN ELSE <<MissingCount(table, c), table.nrows>>]

\* the comparison written >= instead of >
cols_to_drop_geq(table, t) ==
    { c \in table.columns :
        \/ FloatGt(missing_frac(table)[c], t)
        \/ FloatLeq(missing_frac(table)[c], t) /\ FloatLeq(t, missing_frac(table)[c]) }

\* only the first offending column is dropped
cols_to_drop_first(table, t) ==
    LET over == { c \in table.columns : FloatGt(missing_frac(table)[c], t) }
    IN  IF over = {} THEN {} ELSE {CHOOSE c \in over : TRUE}

\* missing_frac[missing_frac > threshold].index
cols_to_drop(table, t) ==
    { c \in table.columns : FloatGt(missing_frac(table)[c], t) }

\* df.drop(columns=...): a new table, the rows untouched
DropColumns(table, cols) ==
    [columns |-> table.columns \ cols,
     nrows   |-> table.nrows,
     cell    |-> [c \in table.columns \ cols |-> table.cell[c]]]

drop_high_missing(table, t) == DropColumns(table, cols_to_drop(table, t))

\* ----------------------------------------------------------- the loader
CountryOrder == <<"Benin", "Sierra Leone", "Togo">>
Countries == { CountryOrder[i] : i \in 1..Len(CountryOrder) }

MetricValues == {None, 1, 2}
SeqsUpTo(S, n) == UNION { [1..k -> S] : k \in 0..n }

\* a country file: absent, present but failing pd.read_csv, or its GHI column
AbsentFile == [exists |-> FALSE, readable |-> FALSE, rows |-> <<>>]
UnreadableFile == [exists |-> TRUE, readable |-> FALSE, rows |-> <<>>]
ReadableFiles(values) ==
    { [exists |-> TRUE, readable |-> TRUE, rows |-> r] :
        r \in SeqsUpTo(values, MaxRecords) }
FileStates(values) == {AbsentFile, UnreadableFile} \cup ReadableFiles(values)

\* df = pd.read_csv(file_path); df['Country'] = country
LabelledRows(country, rows) ==
    [i \in 1..Len(rows) |-> [Country |-> country, GHI |-> rows[i]]]

\* the for loop of load_data from file i on; read_csv raising leaves the loop
RECURSIVE LoadLoop(_, _, _)
LoadLoop(fs, i, acc) ==
    IF i > Len(CountryOrder) THEN acc
    ELSE LET c == CountryOrder[i] IN
         IF fs[c].exists
         THEN IF fs[c].readable
              THEN LoadLoop(fs, i + 1,
                       [acc EXCEPT !.dataframes =
                            Append(@, LabelledRows(c, fs[c].rows))])
              ELSE [acc EXCEPT !.raised = "ReadError"]
         ELSE LoadLoop(fs, i + 1, [acc EXCEPT !.warned = @ \cup {c}])

RECURSIVE Concat(_)
Concat(frames) ==
    IF frames = <<>> THEN <<>> ELSE Head(frames) \o Concat(Tail(frames))

\* a loader that gives up as soon as one file is missing
load_data_all_or_nothing(fs) ==
    LET r == LoadLoop(fs, 1, [dataframes |-> <<>>, warned |-> {},
                              raised |-> "none"])
    IN  [warned |-> r.warned,
         raised |-> r.raised,
         value  |-> IF r.raised # "none" \/ r.warned # {} THEN <<>>
                    ELSE <<[columns |-> {"Country", "GHI"},
                            rows |-> Concat(r.dataframes)]>>]

\* load_data(): <<dataset>>, or <<>> (None) when no file was found or when an
\* exception was caught by the except clause
load_data(fs) ==
    LET r == LoadLoop(fs, 1, [dataframes |-> <<>>, warned |-> {},
                              raised |-> "none"])
    IN  [warned |-> r.warned,
         raised |-> r.raised,
         value  |-> IF r.raised # "none" \/ r.dataframes = <<>> THEN <<>>
                    ELSE <<[columns |-> {"Country", "GHI"},
                            rows |-> Concat(r.dataframes)]>>]

\* ------------------------------------------------- the metric aggregator
Column(table, metric) ==
    [i \in 1..Len(table.rows) |-> table.rows[i][metric]]

\* count taken over the non-missing values of the column instead of the rows
calculate_metrics_nonnull(table, metric) ==
    IF metric \notin table.columns
    THEN [raised |-> "MissingColumn", value |-> <<>>]
    ELSE [raised |-> "none",
          value |-> [mean        |-> mean(Column(table, metric)),
                     median      |-> median(Column(table, metric)),
                     std_squared |-> std_squared(Column(table, metric)),
                     count       |-> count(Column(table, metric))]]

\* an absent column answered with empty metrics instead of an exception
calculate_metrics_lenient(table, metric) ==
    IF metric \notin table.columns
    THEN [raised |-> "none",
          value |-> [mean |-> NaN, median |-> NaN, std_squared |-> NaN,
                     count |-> Len(table.rows)]]
    ELSE [raised |-> "none",
          value |-> [mean        |-> mean(Column(table, metric)),
                     median      |-> median(Column(table, metric)),
                     std_squared |-> std_squared(Column(table, metric)),
                     count       |-> Len(table.rows)]]

\* calculate_metrics(df, metric): df[metric] raises KeyError when absent
calculate_metrics(table, metric) ==
    IF metric \notin table.columns
    THEN [raised |-> "MissingColumn", value |-> <<>>]
    ELSE [raised |-> "none",
          value |-> [mean        |-> mean(Column(table, metric)),
                     median      |-> median(Column(table, metric)),
                     std_squared |-> std_squared(Column(table, metric)),
                     count       |-> Len(table.rows)]]

\* df[df['Country'] == country]
CountryData(table, country) ==
    [columns |-> table.columns,
     rows |-> SelectSeq(table.rows, LAMBDA r : r.Country = country)]

solar_metrics == {"GHI", "DNI", "DHI"}

\* get_country_summary(df, country)
get_country_summary(table, country) ==
    LET country_data == CountryData(table, country) IN
    [country |-> country,
     records |-> Len(country_data.rows),
     metrics |-> [m \in solar_metrics \cap country_data.columns |->
                     calculate_metrics(country_data, m).value]]

\* ------------------------------------------------------ the ranking view
\* the groups of df_all.groupby('Country'), in its (sorted) iteration order
Groups(table) ==
    SelectSeq(CountryOrder,
              LAMBDA c : \E i \in 1..Len(table.rows) : table.rows[i].Country = c)

\* Series.rank(ascending=False, method='dense')
rank_dense(values, i) ==
    IF IsNaN(values[i]) THEN NaN
    ELSE <<1 + Cardinality({ values[j] : j \in
               { k \in 1..Len(values) : FloatGt(values[k], values[i]) } }), 1>>

\* Series.rank(ascending=True)
rank_ascending(values, i) ==
    IF IsNaN(values[i]) THEN NaN
    ELSE <<2 * Cardinality({ j \in 1..Len(values) : FloatGt(values[i], values[j]) })
           + Cardinality({ j \in 1..Len(values) : FloatEq(values[j], values[i]) })
           + 1, 2>>

\* Series.rank(ascending=False) of entry i: method='average', so tied entries
\* share the mean of the positions they occupy; NaN keeps NaN
rank(values, i) ==
    IF IsNaN(values[i]) THEN NaN
    ELSE <<2 * Cardinality({ j \in 1..Len(values) : FloatGt(values[j], values[i]) })
           + Cardinality({ j \in 1..Len(values) : FloatEq(values[j], values[i]) })
           + 1, 2>>

\* the positions holding the minimum of the non-NaN values
MinPositions(values) ==
    { i \in 1..Len(values) :
        /\ ~IsNaN(values[i])
        /\ \A j \in 1..Len(values) :
              IsNaN(values[j]) \/ FloatLeq(values[i], values[j]) }

\* the last position holding the minimum
idxmin_last(values) ==
    LET at == MinPositions(values)
    IN  IF at = {} THEN 0 ELSE CHOOSE i \in at : \A j \in at : j <= i

\* Series.idxmin(): the first position holding the minimum, NaN skipped; 0 when
\* there is none (rankings.loc[...] then raises)
idxmin(values) ==
    LET at == MinPositions(values)
    IN  IF at = {} THEN 0 ELSE CHOOSE i \in at : \A j \in at : i <= j

\* one row of df_all.groupby('Country')[ranking_metric].agg([...]).round(2)
AggregatedRow(table, metric, g) ==
    LET x == Valid(Column(CountryData(table, g), metric)) IN
    [Country   |-> g,
     Average   |-> round2(mean(x)),
     Median    |-> round2(median(x)),
     Stability |-> inverse_std_round2(std_squared(x)),
     Records   |-> count(x)]

\* the aggregated table, one row per group in group order
RECURSIVE Aggregated(_, _, _)
Aggregated(table, metric, groups) ==
    IF groups = <<>> THEN <<>>
    ELSE <<AggregatedRow(table, metric, Head(groups))>>
         \o Aggregated(table, metric, Tail(groups))

\* rankings[field]
RECURSIVE ColumnOf(_, _)
ColumnOf(rows, field) ==
    IF rows = <<>> THEN <<>>
    ELSE <<Head(rows)[field]>> \o ColumnOf(Tail(rows), field)

\* values.rank(ascending=False), from entry i on
RECURSIVE RankColumn(_, _)
RankColumn(values, i) ==
    IF i > Len(values) THEN <<>>
    ELSE <<rank(values, i)>> \o RankColumn(values, i + 1)

\* the three derived columns joined to the aggregated rows, from row i on
RECURSIVE WithRanks(_, _, _, _)
WithRanks(agg, stability_rank, potential_rank, i) ==
    IF i > Len(agg) THEN <<>>
    ELSE <<[Country       |-> agg[i].Country,
            Average       |-> agg[i].Average,
            Median        |-> agg[i].Median,
            Stability     |-> agg[i].Stability,
            Records       |-> agg[i].Records,
            StabilityRank |-> stability_rank[i],
            PotentialRank |-> potential_rank[i],
            OverallScore  |-> FloatHalf(FloatAdd(potential_rank[i],
                                                 stability_rank[i]))]>>
         \o WithRanks(agg, stability_rank, potential_rank, i + 1)

\* the rankings table of lines 265-274
RankingsTable(table, metric) ==
    LET agg == Aggregated(table, metric, Groups(table))
    IN  WithRanks(agg,
                  RankColumn(ColumnOf(agg, "Stability"), 1),
                  RankColumn(ColumnOf(agg, "Average"), 1),
                  1)

\* ------------------------------------------------------- cleaner machine
DashIdle ==
    /\ files = <<>> /\ pc = "idle" /\ df_all = <<>> /\ warned = {}
    /\ raised = "none" /\ request = <<>> /\ screen = "none"
    /\ rankings = <<>> /\ best_country = <<>> /\ out = <<>>

InitCleaner ==
    /\ df0 \in Tables
    /\ df = df0
    /\ threshold = <<>>
    /\ result = <<>>
    /\ result2 = <<>>
    /\ calls = 0
    /\ DashIdle

\* the drop done in place (inplace=True), so that self.df loses the columns
DropHighMissingInplace(t) ==
    /\ calls < MaxCalls
    /\ calls' = calls + 1
    /\ result' = <<drop_high_missing(df, t)>>
    /\ df' = drop_high_missing(df, t)
    /\ threshold' = t
    /\ result2' = <<>>
    /\ UNCHANGED <<df0, dashVars>>

\* cleaner.drop_high_missing(t): returns a new table, self.df is not assigned
DropHighMissing(t) ==
    /\ calls < MaxCalls
    /\ calls' = calls + 1
    /\ result' = <<drop_high_missing(df, t)>>
    /\ threshold' = t
    /\ result2' = <<>>
    /\ UNCHANGED <<df0, df, dashVars>>

\* SolarDataCleaner(result).drop_high_missing(t) on the table just returned
Refilter ==
    /\ result # <<>>
    /\ result2 = <<>>
    /\ result2' = <<drop_high_missing(result[1], threshold)>>
    /\ UNCHANGED <<df0, df, threshold, result, calls, dashVars>>

NextCleaner ==
    \/ \E t \in Thresholds : DropHighMissing(t)
    \/ Refilter

SpecCleaner == InitCleaner /\ [][NextCleaner]_vars

\* ----------------------------------------------------- dashboard machine
CleanerIdle ==
    /\ df0 = <<>> /\ df = <<>> /\ threshold = <<>> /\ result = <<>>
    /\ result2 = <<>> /\ calls = 0

\* the state before main runs, the files holding GHI cells out of `values`
InitFiles(values) ==
    /\ files \in [Countries -> FileStates(values)]
    /\ pc = "start"
    /\ df_all = <<>>
    /\ warned = {}
    /\ raised = "none"
    /\ request = <<>>
    /\ screen = "none"
    /\ rankings = <<>>
    /\ best_country = <<>>
    /\ out = <<>>
    /\ CleanerIdle

\* main, lines 67-69: df_all = load_data()
LoadData ==
    /\ pc = "start"
    /\ pc' = "loaded"
    /\ LET r == load_data(files)
       IN  df_all' = r.value /\ warned' = r.warned /\ raised' = r.raised
    /\ UNCHANGED <<files, request, screen, rankings, best_country, out,
                   cleanerVars>>

\* main, lines 71-73: st.error(...) and return
MainAbort ==
    /\ pc = "loaded" /\ df_all = <<>>
    /\ pc' = "done"
    /\ screen' = "error"
    /\ UNCHANGED <<files, df_all, warned, raised, request, rankings,
                   best_country, out, cleanerVars>>

\* an exception leaves the handler uncaught
Crash(req, exception) ==
    /\ pc' = "crashed"
    /\ raised' = exception
    /\ request' = req
    /\ UNCHANGED <<files, df_all, warned, screen, rankings, best_country, out,
                   cleanerVars>>

Render(req, view) ==
    /\ pc' = "done"
    /\ screen' = view
    /\ request' = req
    /\ UNCHANGED <<files, df_all, warned, raised, rankings, best_country, out,
                   cleanerVars>>

\* show_country_comparison: a warning when no country is selectable, else the
\* plot and the cards read df[metric]
ShowCountryComparison(metric) ==
    /\ pc = "loaded" /\ df_all # <<>>
    /\ IF Groups(df_all[1]) # <<>> /\ metric \notin df_all[1].columns
       THEN Crash(<<"show_country_comparison">>, "MissingColumn")
       ELSE Render(<<"show_country_comparison">>, "comparison")

\* show_time_series: the files of this model carry no Timestamp column, so
\* the view warns and returns (lines 168-170)
ShowTimeSeries ==
    /\ pc = "loaded" /\ df_all # <<>>
    /\ "Timestamp" \notin df_all[1].columns
    /\ Render(<<"show_time_series">>, "time_series")

\* show_weather_correlations: every country's scatter reads both columns
ShowWeatherCorrelations(x_metric, y_metric) ==
    /\ pc = "loaded" /\ df_all # <<>>
    /\ IF Groups(df_all[1]) # <<>> /\ {x_metric, y_metric} \ df_all[1].columns # {}
       THEN Crash(<<"show_weather_correlations">>, "MissingColumn")
       ELSE Render(<<"show_weather_correlations">>, "correlations")

\* show_regional_rankings, lines 255-306
ShowRegionalRankings(ranking_metric) ==
    /\ pc = "loaded" /\ df_all # <<>>
    /\ request' = <<"show_regional_rankings", ranking_metric>>
    /\ IF ranking_metric \notin df_all[1].columns
       THEN /\ pc' = "crashed" /\ raised' = "MissingColumn"
            /\ UNCHANGED <<rankings, best_country, screen>>
       ELSE \E r \in {RankingsTable(df_all[1], ranking_metric)} :
            \E best \in {idxmin(ColumnOf(r, "OverallScore"))} :
                /\ rankings' = r
                /\ IF \/ idxmin(ColumnOf(r, "PotentialRank")) = 0
                      \/ idxmin(ColumnOf(r, "StabilityRank")) = 0
                      \/ best = 0
                   THEN /\ pc' = "crashed" /\ raised' = "IdxminError"
                        /\ UNCHANGED <<best_country, screen>>
                   ELSE /\ pc' = "done" /\ screen' = "rankings"
                        /\ best_country' = <<r[best].Country>>
                        /\ UNCHANGED raised
    /\ UNCHANGED <<files, df_all, warned, out, cleanerVars>>

\* a caller of app.utils asks calculate_metrics of the loaded dataset
CallCalculateMetrics(metric) ==
    /\ pc = "loaded" /\ df_all # <<>>
    /\ request' = <<"calculate_metrics", metric>>
    /\ LET r == calculate_metrics(df_all[1], metric)
       IN  /\ out' = r.value
           /\ raised' = r.raised
           /\ pc' = IF r.raised = "none" THEN "done" ELSE "crashed"
    /\ UNCHANGED <<files, df_all, warned, screen, rankings, best_country,
                   cleanerVars>>

\* a caller of app.utils asks get_country_summary of the loaded dataset
CallGetCountrySummary(country) ==
    /\ pc = "loaded" /\ df_all # <<>>
    /\ request' = <<"get_country_summary", country>>
    /\ out' = get_country_summary(df_all[1], country)
    /\ pc' = "done"
    /\ UNCHANGED <<files, df_all, warned, raised, screen, rankings,
                   best_country, cleanerVars>>

ComparisonMetrics == {"GHI", "DNI", "DHI"}
XMetrics == {"Tamb", "WS", "RH", "GHI"}
YMetrics == {"GHI", "DNI", "DHI", "Tamb", "WS"}
RankingMetrics == {"GHI", "DNI", "DHI", "Tamb", "WS"}

NextDash ==
    \/ LoadData
    \/ MainAbort
    \/ \E m \in ComparisonMetrics : ShowCountryComparison(m)
    \/ ShowTimeSeries
    \/ \E x \in XMetrics, y \in YMetrics : ShowWeatherCorrelations(x, y)
    \/ \E m \in RankingMetrics : ShowRegionalRankings(m)
    \/ \E m \in solar_metrics : CallCalculateMetrics(m)
    \/ \E c \in Countries : CallGetCountrySummary(c)

\* every view and every call, over files whose cells are present or missing
InitDash == InitFiles({None, 1})
SpecDash == InitDash /\ [][NextDash]_vars

\* the ranking view alone, over files whose cells take every metric value
InitRank == InitFiles(MetricValues)

NextRank ==
    \/ LoadData
    \/ MainAbort
    \/ \E m \in RankingMetrics : ShowRegionalRankings(m)

SpecRank == InitRank /\ [][NextRank]_vars

\* --------------------------------------------- aggregator on wider tables
MetricRows ==
    [Country : Countries, GHI : MetricValues, DNI : MetricValues]

InitMetrics ==
    /\ df_all \in { <<[columns |-> {"Country", "GHI", "DNI"}, rows |-> r]>> :
                       r \in SeqsUpTo(MetricRows, MaxTableRows) }
    /\ pc = "loaded"
    /\ files = <<>> /\ warned = {} /\ raised = "none" /\ request = <<>>
    /\ screen = "none" /\ rankings = <<>> /\ best_country = <<>> /\ out = <<>>
    /\ CleanerIdle

NextMetrics ==
    \/ \E m \in solar_metrics : CallCalculateMetrics(m)
    \/ \E c \in Countries : CallGetCountrySummary(c)

SpecMetrics == InitMetrics /\ [][NextMetrics]_vars

\* ---------------------------------------------------------- cleaner claims
\* exact comparison of the fraction missing/rows with the threshold p/q
ExactLeq(table, c, t) == MissingCount(table, c) * t[2] <= t[1] * table.nrows

\* C1 (as amended): for a table with at least one row, drop_high_missing(t)
\* returns exactly the columns whose missing fraction is <= t, with their
\* rows untouched; for a table with no rows (every fraction is NaN) it
\* returns every column.
C1_KeepsColumnsAtOrBelowThreshold ==
    result # <<>> =>
        /\ result[1].nrows = df.nrows
        /\ \A c \in result[1].columns : result[1].cell[c] = df.cell[c]
        /\ IF df.nrows >= 1
           THEN result[1].columns =
                    { c \in df.columns : ExactLeq(df, c, threshold) }
           ELSE result[1].columns = df.columns

\* C1 witness: a call that keeps a column exactly at a positive threshold and
\* drops a column above it
C1_Witness ==
    /\ result # <<>> /\ df.nrows >= 1 /\ threshold[1] > 0
    /\ \E c \in result[1].columns :
           MissingCount(df, c) * threshold[2] = threshold[1] * df.nrows
    /\ \E c \in df.columns : c \notin result[1].columns

\* C1 (as stated): for every table, the returned columns are exactly those
\* whose missing fraction, as pandas computes and compares it, is <= t
C1_AsStated ==
    result # <<>> =>
        result[1].columns =
            { c \in df.columns : FloatLeq(missing_frac(df)[c], threshold) }

\* C2: any sequence of drop_high_missing calls leaves the cleaner's table as
\* constructed, and each call returns what its threshold alone selects from
\* the constructed table, whatever was called before.
C2_InputUntouched ==
    /\ df = df0
    /\ result # <<>> =>
          result[1].columns =
              { c \in df0.columns : ~FloatGt(missing_frac(df0)[c], threshold) }

\* C2 witness: a second call, after a first one, that removed a column
C2_Witness ==
    /\ calls >= 2
    /\ result # <<>> /\ result[1].columns # df0.columns

\* C3: filtering the filtered table again at the same threshold returns the
\* same table (same columns, same rows).
C3_Idempotent == result2 # <<>> => result2 = result

\* C3 witness: a second filtering of a table that lost two columns and kept one
C3_Witness ==
    /\ result2 # <<>>
    /\ Cardinality(df.columns \ result[1].columns) >= 2
    /\ result[1].columns # {}

\* -------------------------------------------------------- aggregator claims
\* the rows of a table whose cell in column m is present
PresentRows(table, m) ==
    { i \in 1..Len(table.rows) : table.rows[i][m] # None }

\* what the claim asks of a metrics record taken on `table` for column m
MetricsAsClaimed(table, m, metrics) ==
    LET present == PresentRows(table, m)
        cells == { table.rows[i][m] : i \in present }
    IN  /\ metrics.count = Len(table.rows)
        /\ IF present = {}
           THEN IsNaN(metrics.mean) /\ IsNaN(metrics.median)
           ELSE /\ metrics.mean[2] = Cardinality(present)
                /\ \E lo \in cells, hi \in cells :
                      /\ \A v \in cells : lo <= v /\ v <= hi
                      /\ FloatLeq(<<lo, 1>>, metrics.mean)
                      /\ FloatLeq(metrics.mean, <<hi, 1>>)
                      /\ FloatLeq(<<lo, 1>>, metrics.median)
                      /\ FloatLeq(metrics.median, <<hi, 1>>)
        /\ IsNaN(metrics.std_squared) <=> Cardinality(present) < 2
        /\ ~IsNaN(metrics.std_squared) =>
              (metrics.std_squared[1] = 0 <=> Cardinality(cells) = 1)

\* C4: calculate_metrics counts every row of the table it is given, missing
\* cells included, while mean, median and std come from the present cells of
\* the metric column alone; get_country_summary reports, for every metric, a
\* count equal to its 'records'.
C4_CountIsRowCount ==
    /\ (pc = "done" /\ request[1] = "calculate_metrics") =>
          MetricsAsClaimed(df_all[1], request[2], out)
    /\ (pc = "done" /\ request[1] = "get_country_summary") =>
          /\ out.records =
                Cardinality({ i \in 1..Len(df_all[1].rows) :
                                df_all[1].rows[i].Country = request[2] })
          /\ DOMAIN out.metrics = {"GHI", "DNI"}
          /\ \A m \in DOMAIN out.metrics :
                /\ out.metrics[m].count = out.records
                /\ MetricsAsClaimed(CountryData(df_all[1], request[2]), m,
                                    out.metrics[m])

\* C4 witness: a summary of a country with two records, one of them missing
\* its GHI cell and the other its DNI cell
C4_Witness ==
    /\ pc = "done" /\ request[1] = "get_country_summary"
    /\ out.records = 2
    /\ out.metrics["GHI"].count = 2 /\ out.metrics["GHI"].mean[2] = 1
    /\ out.metrics["DNI"].count = 2 /\ out.metrics["DNI"].mean[2] = 1

\* ----------------------------------------------------------- ranking claims
Ranked == rankings # <<>>

\* the average rank of entry i among `values`, descending: the mean of the
\* first and last positions of the entries equal to it
MeanOfTiedPositions(values, i) ==
    LET greater == Cardinality({ j \in 1..Len(values) : FloatGt(values[j], values[i]) })
        equal == Cardinality({ j \in 1..Len(values) : FloatEq(values[j], values[i]) })
    IN  <<(greater + 1) + (greater + equal), 2>>

\* the dense rank of entry i among `values`, descending
DenseRank(values, i) ==
    <<1 + Cardinality({ values[j] : j \in
          { k \in 1..Len(values) : FloatGt(values[k], values[i]) } }), 1>>

RankValues(field) == [j \in 1..Len(rankings) |-> rankings[j][field]]

\* the ranks of column rankField are the average ranks of column field
AverageRanked(field, rankField) ==
    \A i \in 1..Len(rankings) :
        IF IsNaN(rankings[i][field]) THEN IsNaN(rankings[i][rankField])
        ELSE FloatEq(rankings[i][rankField],
                     MeanOfTiedPositions(RankValues(field), i))

\* the ranks of column rankField are the dense ranks of column field
DenseRanked(field, rankField) ==
    \A i \in 1..Len(rankings) :
        IF IsNaN(rankings[i][field]) THEN IsNaN(rankings[i][rankField])
        ELSE FloatEq(rankings[i][rankField], DenseRank(RankValues(field), i))

\* C5 (as amended): PotentialRank and StabilityRank are the average ranks of
\* the (rounded) average and stability in descending order: a group's rank is
\* the mean of the positions its tie block occupies, so it is a whole number
\* from 1 up when values are distinct and a shared, possibly fractional rank
\* followed by a gap when they tie; a group with a NaN value has no rank.
C5_RanksAreAverageRanks ==
    /\ AverageRanked("Average", "PotentialRank")
    /\ AverageRanked("Stability", "StabilityRank")

\* C5 witness: three ranked groups, two of them tied for the highest average
C5_Witness ==
    /\ Len(rankings) = 3
    /\ \E i, j, k \in 1..3 :
          /\ i # j
          /\ FloatEq(rankings[i].Average, rankings[j].Average)
          /\ FloatGt(rankings[i].Average, rankings[k].Average)
          /\ FloatEq(rankings[i].PotentialRank, <<3, 2>>)
          /\ FloatEq(rankings[k].PotentialRank, <<3, 1>>)

\* C5 (as stated): both ranks are dense ranks, whole numbers without gaps
C5_AsStated ==
    /\ DenseRanked("Average", "PotentialRank")
    /\ DenseRanked("Stability", "StabilityRank")

\* the metric values of the group of row i, missing cells dropped
GroupValues(i) ==
    Valid(Column(CountryData(df_all[1], rankings[i].Country), request[2]))

\* A's average is greater than B's and A's stability 1/std at least B's, on
\* the exact values of the two groups (1/std is no smaller when the variance
\* is no greater, and is infinite when it is zero)
Dominates(a, b) ==
    /\ FloatGt(mean(GroupValues(a)), mean(GroupValues(b)))
    /\ FloatLeq(std_squared(GroupValues(a)), std_squared(GroupValues(b)))

\* the same on the rounded values the rankings table shows
DominatesAsShown(a, b) ==
    /\ FloatGt(rankings[a].Average, rankings[b].Average)
    /\ FloatLeq(rankings[b].Stability, rankings[a].Stability)

\* C6: a group with a greater average and at least the stability of another
\* has an OverallScore no greater than the other's, whether the two are
\* compared on their exact values or on the rounded values of the table.
C6_RankingMonotone ==
    Ranked =>
        \A a, b \in 1..Len(rankings) :
            (Dominates(a, b) \/ DominatesAsShown(a, b)) =>
                FloatLeq(rankings[a].OverallScore, rankings[b].OverallScore)

\* C6 witness: a ranking in which one group dominates another and scores
\* strictly better
C6_Witness ==
    /\ Ranked
    /\ \E a, b \in 1..Len(rankings) :
          /\ Dominates(a, b)
          /\ FloatGt(rankings[b].OverallScore, rankings[a].OverallScore)

HasScore(i) == ~IsNaN(rankings[i].OverallScore)

\* C7: OverallScore is (PotentialRank + StabilityRank) / 2, and the recommended
\* group holds the minimum OverallScore, the first such group in group order.
C7_BestIsFirstMinimum ==
    /\ \A i \in 1..Len(rankings) :
          IF IsNaN(rankings[i].PotentialRank) \/ IsNaN(rankings[i].StabilityRank)
          THEN IsNaN(rankings[i].OverallScore)
          ELSE FloatEq(FloatAdd(rankings[i].OverallScore, rankings[i].OverallScore),
                       FloatAdd(rankings[i].PotentialRank, rankings[i].StabilityRank))
    /\ (pc = "done" /\ screen = "rankings") =>
          \E b \in 1..Len(rankings) :
              /\ best_country = <<rankings[b].Country>>
              /\ HasScore(b)
              /\ \A j \in 1..Len(rankings) :
                    HasScore(j) =>
                        /\ FloatLeq(rankings[b].OverallScore, rankings[j].OverallScore)
                        /\ j < b => FloatGt(rankings[j].OverallScore,
                                            rankings[b].OverallScore)

\* C7 witness: two groups share the minimum score, a third scores worse, and
\* the earlier of the two is recommended
C7_Witness ==
    /\ pc = "done" /\ screen = "rankings" /\ Len(rankings) = 3
    /\ \E b, j, k \in 1..3 :
          /\ b < j
          /\ best_country = <<rankings[b].Country>>
          /\ FloatEq(rankings[b].OverallScore, rankings[j].OverallScore)
          /\ FloatGt(rankings[k].OverallScore, rankings[b].OverallScore)

\* the group of row i holds two or more values, all equal: std = 0
ZeroStd(i) ==
    LET v == std_squared(GroupValues(i)) IN ~IsNaN(v) /\ v[1] = 0

ZeroStdGroups == { i \in 1..Len(rankings) : ZeroStd(i) }

Existing == { c \in Countries : files[c].exists }
SomeUnreadable == \E c \in Existing : ~files[c].readable

\* the GHI cells of the rows of the combined dataset labelled c, in order
RowsLabelled(c) ==
    LET mine == SelectSeq(df_all[1].rows, LAMBDA r : r.Country = c)
    IN  [i \in 1..Len(mine) |-> mine[i].GHI]

\* the combined dataset holds exactly the rows of the existing files, each
\* labelled with the country of its file
CombinedIsExistingFiles ==
    /\ df_all # <<>>
    /\ \A c \in Countries :
          RowsLabelled(c) = IF c \in Existing THEN files[c].rows ELSE <<>>
    /\ Len(df_all[1].rows) =
          Sum([i \in 1..Len(CountryOrder) |-> Len(files[CountryOrder[i]].rows)])

\* main showed the error message and rendered no view
OnlyErrorShown ==
    /\ pc # "crashed"
    /\ pc = "done" => screen = "error"
    /\ pc # "done" => screen = "none"
    /\ rankings = <<>> /\ best_country = <<>> /\ out = <<>> /\ request = <<>>

\* C9 (as amended): load_data skips each missing file with a warning and goes
\* on; when at least one file exists and every existing file can be read it
\* returns the rows of the existing files, each labelled with its country;
\* when no file exists, or when reading an existing file fails, it returns
\* None, and main then shows the error message and renders no view.
C9_LoaderSkipsMissingFiles ==
    pc # "start" =>
        /\ ~SomeUnreadable => warned = Countries \ Existing
        /\ IF Existing = {} \/ SomeUnreadable
           THEN df_all = <<>> /\ OnlyErrorShown
           ELSE CombinedIsExistingFiles

\* C9 witness: main ran to its end on two readable files and a missing one
C9_Witness ==
    /\ pc = "done" /\ screen # "error"
    /\ Cardinality(Existing) = 2 /\ Cardinality(warned) = 1
    /\ \A c \in Existing : files[c].rows # <<>>
    /\ Len(df_all[1].rows) >= 2

\* C9 (as stated): whenever at least one file exists, load_data returns the
\* combined rows of the existing files; it returns None when none exists
C9_AsStated ==
    pc # "start" =>
        IF Existing = {} THEN df_all = <<>> /\ OnlyErrorShown
        ELSE CombinedIsExistingFiles

\* C10 (as amended): a request for a column the dataset lacks fails at once
\* and the exception leaves the handler uncaught, with nothing rendered:
\* calculate_metrics, get_country_summary and the views catch nothing
\* (get_country_summary asks only for the metrics the dataset has). The
\* loader does: besides the missing-file warning, its except clause turns any
\* exception raised while loading into the None result, on which main shows
\* the error message.
C10_FailuresSurface ==
    /\ (request # <<>> /\ request[1] \in {"calculate_metrics", "show_regional_rankings"}) =>
          IF request[2] \in df_all[1].columns
          THEN raised # "MissingColumn"
          ELSE pc = "crashed" /\ raised = "MissingColumn"
    /\ (request # <<>> /\ request[1] = "get_country_summary") =>
          /\ pc = "done" /\ raised = "none"
          /\ DOMAIN out.metrics = solar_metrics \cap df_all[1].columns
    /\ raised \in {"MissingColumn", "IdxminError"} =>
          pc = "crashed" /\ screen = "none" /\ out = <<>> /\ best_country = <<>>
    /\ pc = "crashed" => raised \in {"MissingColumn", "IdxminError"}
    /\ raised = "ReadError" => df_all = <<>> /\ OnlyErrorShown

\* C10 witness: calculate_metrics asked for a column the loaded dataset lacks
C10_Witness ==
    /\ request = <<"calculate_metrics", "DNI">>
    /\ df_all # <<>> /\ Len(df_all[1].rows) >= 1
    /\ pc = "crashed"

\* C10 (as stated): once main or the call has ended, every exception raised in
\* a component has reached the top-level caller
C10_AsStated ==
    (pc \in {"done", "crashed"} /\ raised # "none") => pc = "crashed"

====
